---- MODULE Spec2Model ----
(***************************************************************************)
(* A model of rantevou.py: the poll loop of the main thread, which         *)
(* reconciles the active_slots table with the observed timeslots under     *)
(* active_slots_mu, and the SIGINT/SIGTERM handler, which CPython runs on  *)
(* the main thread, on top of whatever frame the signal interrupted.       *)
(*                                                                         *)
(* Environment: the Telegram sink hands out message ids 1, 2, ... (each    *)
(* once); the timeslot service answers a request for start_date with       *)
(* slots of non-decreasing dates, none before start_date, in zones of the  *)
(* current directory; any network call may fail.  Dates are day numbers    *)
(* counted from today.  A variable that the code assigns again before it   *)
(* reads it (the locals of a finished timeslot, center or sweep) is reset  *)
(* to its initial value, which keeps the state space small.                *)
(***************************************************************************)
EXTENDS Integers, Sequences, FiniteSets, TLC

\* ------------------------------------------------------------- bounds
MaxDate == 3         \* latest day the timeslot service answers with
MaxPage == 2         \* timeslots in one response of the timeslot service
MaxMsgs == 2         \* message ids the sink hands out

\* ------------------------------------------------------- program constants
Rounds == 2
Today == 0
orange == 129511
yellow == 129512
green == 129513

\* What the services answer with.
CenterIds == {1}
CenterNames == {"KEP", "IKA"}
Offsets == {0, 1}
ZoneIds == {1}
Percents == {0, 50}

VARIABLES
    pc,            \* position of the main thread in the poll loop
    hpc,           \* position of the signal handler
    lock,          \* active_slots_mu: TRUE while held
    active_slots,  \* the dict, as its items in insertion order
    sent,          \* the sink: sent[h] is the message with id h
    centers,       \* the directory of the current sweep
    clock_zones,   \* id -> ClockZone of the current sweep
    ci,            \* index of the center being polled
    round,         \* fetch round of the center, 1..Rounds
    start_date,    \* the cursor
    yielded,       \* timeslots the current response has yielded
    ts,            \* the timeslot being processed
    slot,          \* its Slot
    msgid,         \* the local msgid of line 225
    emoji,         \* the result of a call of availability_emoji on its own
    processed,     \* the sweep's counter
    hidx,          \* position of the handler's loop over active_slots.items()
    warnings,      \* keys warn_if_no_key has warned about
    exc,           \* the uncaught exception, "none" while there is none
    seen,          \* history: latest date yielded for the current center this sweep
    outcome,       \* history: what the reconciler did with ts
    drained        \* history: msgids the handler passed to delete

vars == <<pc, hpc, lock, active_slots, sent, centers, clock_zones, ci, round,
          start_date, yielded, ts, slot, msgid, emoji, processed, hidx, warnings, exc,
          seen, outcome, drained>>

\* ------------------------------------------------------------- data
VaccinationCenter(i, n, d) == [id |-> i, name |-> n, days_after_today |-> d]

ClockZone(i) == [id |-> i, start |-> "09:00", end |-> "13:00"]

Timeslot(d, cz, p) == [date |-> d, clock_zone |-> cz, availability_percent |-> p]

Slot(c, d, cz) == [center_id |-> c, date |-> d, clock_zone |-> cz]

NoTimeslot == Timeslot(0, ClockZone(0), 0)
NoSlot == Slot(0, 0, ClockZone(0))

AllCenters == {VaccinationCenter(i, n, d) : i \in CenterIds, n \in CenterNames, d \in Offsets}

\* The directory responses: any number of centers with distinct ids.
CenterLists ==
    UNION {{s \in [1..n -> AllCenters] : \A i, j \in 1..n : i # j => s[i].id # s[j].id}
           : n \in 0..Cardinality(CenterIds)}

ZoneDicts == {[i \in ZoneIds |-> ClockZone(i)]}

\* ------------------------------------------------------------- the dict
Keys(d) == {d[i].slot : i \in DOMAIN d}

\* A faulty Get: the handle of the first item, whatever the key.
GetFirst(d, k) == d[1].msgid

Get(d, k) == d[CHOOSE i \in DOMAIN d : d[i].slot = k].msgid

\* A faulty Put: the item gets a number counted locally, not the handle.
PutCounted(d, k, v) == Append(d, [slot |-> k, msgid |-> Len(d) + 1])

Put(d, k, v) ==
    IF k \in Keys(d)
    THEN [i \in DOMAIN d |-> IF d[i].slot = k THEN [slot |-> k, msgid |-> v] ELSE d[i]]
    ELSE Append(d, [slot |-> k, msgid |-> v])

\* A faulty Del: the oldest item goes, whatever the key.
DelOldest(d, k) == Tail(d)

\* A faulty Del: the item stays.
DelNothing(d, k) == d

Del(d, k) == SelectSeq(d, LAMBDA e : e.slot # k)

\* ------------------------------------------------------------- messages
\* A faulty availability_emoji: thresholds rounded down to 33 and 66.
availability_emoji_floor(percentage) ==
    IF percentage < 33 THEN orange
    ELSE IF percentage > 66 THEN green
    ELSE yellow

availability_emoji(percentage) ==
    IF 3 * percentage < 100 THEN orange
    ELSE IF 3 * percentage > 200 THEN green
    ELSE yellow

format_message(t, center) ==
    [box |-> availability_emoji(t.availability_percent), date |-> t.date,
     zone |-> <<t.clock_zone.start, t.clock_zone.end>>, name |-> center.name]

\* ------------------------------------------------------------- the sink
NoMessage == [box |-> 0, date |-> 0, zone |-> <<>>, name |-> ""]

Message(m, k) == [msg |-> m, slot |-> k, live |-> TRUE, dels |-> 0]

SinkCreate(m, k) == Append(sent, Message(m, k))

\* A delete call for message h; when it takes effect the message is gone.
SinkDelete(h, ok) ==
    [sent EXCEPT ![h] = IF ok /\ @.live
                        THEN [msg |-> NoMessage, slot |-> NoSlot, live |-> FALSE,
                              dels |-> @.dels + 1]
                        ELSE [@ EXCEPT !.dels = @ + 1]]

Live == {h \in DOMAIN sent : sent[h].live}

\* ------------------------------------------------------------- Init
Init ==
    /\ pc = "refresh"
    /\ hpc = "idle"
    /\ lock = FALSE
    /\ active_slots = <<>>
    /\ sent = <<>>
    /\ centers = <<>>
    /\ clock_zones = <<>>
    /\ ci = 1
    /\ round = 1
    /\ start_date = 0
    /\ yielded = 0
    /\ ts = NoTimeslot
    /\ slot = NoSlot
    /\ msgid = 0
    /\ emoji = 0
    /\ processed = 0
    /\ hidx = 1
    /\ warnings = {}
    /\ exc = "none"
    /\ seen = 0
    /\ outcome = "none"
    /\ drained = <<>>

Running == pc \notin {"crashed", "exited"}

\* A faulty Main: the poll loop goes on beside the handler.
MainBeside(at) == pc = at

\* The main thread runs only while no handler sits on top of its stack.
Main(at) == pc = at /\ hpc = "idle"

Raise(e) == pc' = "crashed" /\ exc' = e

hvars == <<hpc, hidx, drained>>
loopvars == <<centers, clock_zones, ci, round, start_date, yielded, processed, seen>>
obsvars == <<ts, slot, msgid, outcome, emoji>>

\* ------------------------------------------------------------- decisions
\* A faulty NeedsCreate: no look into the table.
NeedsCreateAnyway(t, k, d) == t.availability_percent > 0

NeedsCreate(t, k, d) == t.availability_percent > 0 /\ k \notin Keys(d)

\* A faulty NeedsDelete: no look into the table.
NeedsDeleteAnyway(t, k, d) == t.availability_percent = 0

NeedsDelete(t, k, d) == t.availability_percent = 0 /\ k \in Keys(d)

\* A faulty NextCursor: the day itself.
NextCursorSame(t) == t.date

NextCursor(t) == t.date + 1

FirstCursor(center) == Today + (center.days_after_today + 1)

\* A faulty SlotOf: the center goes into the key by its name.
SlotOfNamed(center, t) == Slot(center.name, t.date, t.clock_zone)

\* slot = Slot(center.id, ts.date, ts.clock_zone)
SlotOf(center, t) == Slot(center.id, t.date, t.clock_zone)

\* A faulty Acquired: acquire returns without taking the lock.
AcquiredNot(l) == l

\* The lock after acquire() has returned.
Acquired(l) == TRUE

\* A faulty CanAcquire: a lock that excludes nobody.
CanAcquireHeld(l) == TRUE

CanAcquire(l) == l = FALSE

\* ------------------------------------------------------------- the poll loop
\* while True: centers, clock_zones = request_centers_and_clock_zones(...)
RefreshOk ==
    /\ Main("refresh")
    /\ centers' \in CenterLists
    /\ clock_zones' \in ZoneDicts
    /\ processed' = 0
    /\ ci' = 1
    /\ pc' = "center"
    /\ UNCHANGED <<lock, active_slots, sent, round, start_date, yielded, seen,
                   warnings, exc, obsvars, hvars>>

\* The response lacks "centers" or "timezones": a warning each, then KeyError.
RefreshMissing ==
    /\ Main("refresh")
    /\ \E missing \in (SUBSET {"centers", "timezones"}) \ {{}} :
          warnings' = warnings \cup missing
    /\ Raise("KeyError")
    /\ UNCHANGED <<lock, active_slots, sent, loopvars, obsvars, hvars>>

RefreshFail ==
    /\ Main("refresh")
    /\ Raise("URLError")
    /\ UNCHANGED <<lock, active_slots, sent, loopvars, obsvars, hvars, warnings>>

\* for center in centers: start_date = today + days_after_today + 1
NextCenter ==
    /\ Main("center")
    /\ ci <= Len(centers)
    /\ start_date' = FirstCursor(centers[ci])
    /\ round' = 1
    /\ seen' = 0
    /\ pc' = "round"
    /\ UNCHANGED <<lock, active_slots, sent, centers, clock_zones, ci, yielded,
                   processed, warnings, exc, obsvars, hvars>>

CentersDone ==
    /\ Main("center")
    /\ ci > Len(centers)
    /\ pc' = "sweep_end"
    /\ UNCHANGED <<lock, active_slots, sent, loopvars, warnings, exc, obsvars, hvars>>

\* for _ in range(2): sleep; request_timeslots(person_id, center.id, start_date)
FetchOk ==
    /\ Main("round")
    /\ round <= Rounds
    /\ yielded' = 0
    /\ pc' = "page"
    /\ UNCHANGED <<lock, active_slots, sent, centers, clock_zones, ci, round,
                   start_date, processed, seen, warnings, exc, obsvars, hvars>>

\* The response lacks "timeslotsFree": a warning, and res.get yields nothing.
FetchMissing ==
    /\ Main("round")
    /\ round <= Rounds
    /\ warnings' = warnings \cup {"timeslotsFree"}
    /\ round' = round + 1
    /\ UNCHANGED <<pc, lock, active_slots, sent, centers, clock_zones, ci,
                   start_date, yielded, processed, seen, exc, obsvars, hvars>>

FetchFail ==
    /\ Main("round")
    /\ round <= Rounds
    /\ Raise("URLError")
    /\ UNCHANGED <<lock, active_slots, sent, loopvars, warnings, obsvars, hvars>>

RoundsDone ==
    /\ Main("round")
    /\ round > Rounds
    /\ ci' = ci + 1
    /\ round' = 1
    /\ start_date' = 0
    /\ seen' = 0
    /\ pc' = "center"
    /\ UNCHANGED <<lock, active_slots, sent, centers, clock_zones, yielded,
                   processed, warnings, exc, obsvars, hvars>>

\* The dates the service may answer with next: none before the requested
\* start_date, none before the one it answered with last.
NextDates == {d \in 0..MaxDate : d >= (IF yielded = 0 THEN start_date ELSE start_date - 1)}

\* for ts in request_timeslots(...): start_date, slot, processed
Yield ==
    /\ Main("page")
    /\ yielded < MaxPage
    /\ \E d \in NextDates, z \in DOMAIN clock_zones, p \in Percents :
          /\ ts' = Timeslot(d, clock_zones[z], p)
          /\ start_date' = NextCursor(ts')
          /\ slot' = SlotOf(centers[ci], ts')
          /\ seen' = IF d > seen THEN d ELSE seen
    /\ processed' = processed + 1
    /\ yielded' = yielded + 1
    /\ pc' = "acquire"
    /\ UNCHANGED <<emoji, lock, active_slots, sent, centers, clock_zones, ci, round,
                   msgid, outcome, warnings, exc, hvars>>

PageEnd ==
    /\ Main("page")
    /\ round' = round + 1
    /\ yielded' = 0
    /\ pc' = "round"
    /\ UNCHANGED <<lock, active_slots, sent, centers, clock_zones, ci, start_date,
                   processed, seen, warnings, exc, obsvars, hvars>>

\* active_slots_mu.acquire()
Acquire ==
    /\ Main("acquire")
    /\ CanAcquire(lock)
    /\ lock' = Acquired(lock)
    /\ pc' = "decide"
    /\ UNCHANGED <<active_slots, sent, loopvars, warnings, exc, obsvars, hvars>>

\* if ts.availability_percent > 0 and slot not in active_slots:
DecideCreate ==
    /\ Main("decide")
    /\ NeedsCreate(ts, slot, active_slots)
    /\ pc' = "send"
    /\ UNCHANGED <<lock, active_slots, sent, loopvars, warnings, exc, obsvars, hvars>>

\* elif ts.availability_percent == 0 and slot in active_slots:
DecideDelete ==
    /\ Main("decide")
    /\ ~NeedsCreate(ts, slot, active_slots)
    /\ NeedsDelete(ts, slot, active_slots)
    /\ pc' = "delete"
    /\ UNCHANGED <<lock, active_slots, sent, loopvars, warnings, exc, obsvars, hvars>>

DecideNoop ==
    /\ Main("decide")
    /\ ~NeedsCreate(ts, slot, active_slots)
    /\ ~NeedsDelete(ts, slot, active_slots)
    /\ outcome' = "noop"
    /\ pc' = "release"
    /\ UNCHANGED <<emoji, lock, active_slots, sent, loopvars, warnings, exc, ts, slot, msgid, hvars>>

\* History: the center, day and zone that the message being sent is about.
Announced == Slot(centers[ci].id, ts.date, ts.clock_zone)

\* msgid = send_telegram_message(format_message(ts, center))
SendOk ==
    /\ Main("send")
    /\ Len(sent) < MaxMsgs
    /\ sent' = SinkCreate(format_message(ts, centers[ci]), Announced)
    /\ msgid' = Len(sent')
    /\ pc' = "store"
    /\ UNCHANGED <<emoji, lock, active_slots, loopvars, warnings, exc, ts, slot, outcome, hvars>>

\* The response lacks "result": a warning, then KeyError.
SendMalformed ==
    /\ Main("send")
    /\ warnings' = warnings \cup {"result"}
    /\ Raise("KeyError")
    /\ UNCHANGED <<lock, active_slots, sent, loopvars, obsvars, hvars>>

\* urlopen raises; the sink may or may not have taken the message.
SendFail ==
    /\ Main("send")
    /\ \/ UNCHANGED sent
       \/ /\ Len(sent) < MaxMsgs
          /\ sent' = SinkCreate(format_message(ts, centers[ci]), Announced)
    /\ Raise("URLError")
    /\ UNCHANGED <<lock, active_slots, loopvars, warnings, obsvars, hvars>>

\* active_slots[slot] = msgid
Store ==
    /\ Main("store")
    /\ active_slots' = Put(active_slots, slot, msgid)
    /\ outcome' = "created"
    /\ pc' = "release"
    /\ UNCHANGED <<emoji, lock, sent, loopvars, warnings, exc, ts, slot, msgid, hvars>>

\* delete_telegram_message(active_slots[slot])
DeleteOk ==
    /\ Main("delete")
    /\ sent' = SinkDelete(Get(active_slots, slot), TRUE)
    /\ pc' = "remove"
    /\ UNCHANGED <<lock, active_slots, loopvars, warnings, exc, obsvars, hvars>>

DeleteFail ==
    /\ Main("delete")
    /\ \E ok \in BOOLEAN : sent' = SinkDelete(Get(active_slots, slot), ok)
    /\ Raise("URLError")
    /\ UNCHANGED <<lock, active_slots, loopvars, warnings, obsvars, hvars>>

\* del active_slots[slot]
Remove ==
    /\ Main("remove")
    /\ active_slots' = Del(active_slots, slot)
    /\ outcome' = "deleted"
    /\ pc' = "release"
    /\ UNCHANGED <<emoji, lock, sent, loopvars, warnings, exc, ts, slot, msgid, hvars>>

\* active_slots_mu.release()
Release ==
    /\ Main("release")
    /\ lock' = FALSE
    /\ ts' = NoTimeslot
    /\ slot' = NoSlot
    /\ msgid' = 0
    /\ outcome' = "none"
    /\ pc' = "page"
    /\ UNCHANGED <<emoji, active_slots, sent, loopvars, warnings, exc, hvars>>

\* logging.debug(processed); time.sleep(10 + ...)
SweepEnd ==
    /\ Main("sweep_end")
    /\ centers' = <<>>
    /\ clock_zones' = <<>>
    /\ ci' = 1
    /\ processed' = 0
    /\ pc' = "refresh"
    /\ UNCHANGED <<lock, active_slots, sent, round, start_date, yielded, seen,
                   warnings, exc, obsvars, hvars>>

\* ------------------------------------------------------------- the handler
\* SIGINT or SIGTERM: CPython calls handler on the main thread, on top of the
\* frame it interrupted, which resumes only when handler returns.
Signal ==
    /\ Running
    /\ hpc = "idle"
    /\ hpc' = "acquire"
    /\ UNCHANGED <<pc, lock, active_slots, sent, loopvars, warnings, exc, obsvars,
                   hidx, drained>>

\* A further signal during the drain: a second handler call on top of the first.
\* It waits for the lock the first call holds, and the first call waits for it.
SignalAgain ==
    /\ Running
    /\ hpc = "drain"
    /\ hpc' = "nested"
    /\ UNCHANGED <<pc, lock, active_slots, sent, loopvars, warnings, exc, obsvars,
                   hidx, drained>>

\* active_slots_mu.acquire() in handler
HAcquire ==
    /\ Running
    /\ hpc = "acquire"
    /\ CanAcquire(lock)
    /\ lock' = Acquired(lock)
    /\ hidx' = 1
    /\ hpc' = "drain"
    /\ UNCHANGED <<pc, active_slots, sent, loopvars, warnings, exc, obsvars, drained>>

\* for _, msgid in active_slots.items(): delete_telegram_message(msgid)
HDeleteOk ==
    /\ Running
    /\ hpc = "drain"
    /\ hidx <= Len(active_slots)
    /\ sent' = SinkDelete(active_slots[hidx].msgid, TRUE)
    /\ drained' = Append(drained, active_slots[hidx].msgid)
    /\ hidx' = hidx + 1
    /\ UNCHANGED <<pc, hpc, lock, active_slots, loopvars, warnings, exc, obsvars>>

HDeleteFail ==
    /\ Running
    /\ hpc = "drain"
    /\ hidx <= Len(active_slots)
    /\ \E ok \in BOOLEAN : sent' = SinkDelete(active_slots[hidx].msgid, ok)
    /\ drained' = Append(drained, active_slots[hidx].msgid)
    /\ hpc' = "raised"
    /\ Raise("URLError")
    /\ UNCHANGED <<lock, active_slots, loopvars, warnings, obsvars, hidx>>

\* exit(0)
HExit ==
    /\ Running
    /\ hpc = "drain"
    /\ hidx > Len(active_slots)
    /\ hpc' = "done"
    /\ pc' = "exited"
    /\ UNCHANGED <<lock, active_slots, sent, loopvars, warnings, exc, obsvars,
                   hidx, drained>>

Poll ==
    \/ RefreshOk \/ RefreshMissing \/ RefreshFail
    \/ NextCenter \/ CentersDone
    \/ FetchOk \/ FetchMissing \/ FetchFail \/ RoundsDone
    \/ Yield \/ PageEnd
    \/ Acquire \/ DecideCreate \/ DecideDelete \/ DecideNoop
    \/ SendOk \/ SendMalformed \/ SendFail \/ Store
    \/ DeleteOk \/ DeleteFail \/ Remove
    \/ Release \/ SweepEnd

Handler == HAcquire \/ HDeleteOk \/ HDeleteFail \/ HExit

Next == Poll \/ Signal \/ SignalAgain \/ Handler

Spec == Init /\ [][Next]_vars

\* availability_emoji on its own, for every percentage of 0..100.
InitSeverity ==
    /\ pc = "classify"
    /\ hpc = "idle"
    /\ lock = FALSE
    /\ active_slots = <<>>
    /\ sent = <<>>
    /\ centers = <<>>
    /\ clock_zones = <<>>
    /\ ci = 1
    /\ round = 1
    /\ start_date = 0
    /\ yielded = 0
    /\ \E p \in 0..100 : ts = Timeslot(1, ClockZone(1), p)
    /\ slot = NoSlot
    /\ msgid = 0
    /\ emoji = 0
    /\ processed = 0
    /\ hidx = 1
    /\ warnings = {}
    /\ exc = "none"
    /\ seen = 0
    /\ outcome = "none"
    /\ drained = <<>>

Classify ==
    /\ pc = "classify"
    /\ emoji' = availability_emoji(ts.availability_percent)
    /\ pc' = "classified"
    /\ UNCHANGED <<hpc, lock, active_slots, sent, loopvars, ts, slot, msgid,
                   outcome, hidx, drained, warnings, exc>>

SpecSeverity == InitSeverity /\ [][Classify]_vars

\* The interpreter runs whichever of the two can take a step: the handler
\* while one is on the stack, the poll loop otherwise.
FairSpec == Spec /\ WF_vars(Handler) /\ WF_vars(Poll)

\* ------------------------------------------------------------- properties
Guarded == {"decide", "send", "store", "delete", "remove", "release"}

Items(d) == {d[i] : i \in DOMAIN d}

\* The table and the sink agree: the items are the live messages with their slots.
TableMatchesSink == Items(active_slots) = {[slot |-> sent[h].slot, msgid |-> h] : h \in Live}

Tracked == {active_slots[i].msgid : i \in DOMAIN active_slots}

\* C1: once the signal is delivered, the handler eventually deletes every
\* tracked notification and the process exits; the process never stays
\* blocked forever.  (Left aside: a run that an uncaught network error ends,
\* and one in which a second signal interrupts the drain.)
ShutdownCompletes ==
    (hpc = "acquire")
        ~> \/ pc = "exited" /\ Tracked \cap Live = {}
           \/ pc = "crashed"
           \/ hpc = "nested"

\* C2: a create is issued only for a slot that is not in the table, a delete
\* only for one that is, and the table holds one item per slot, each with a
\* handle of its own.
CreateAbsentDeletePresent ==
    /\ pc \in {"send", "store"} => slot \notin Keys(active_slots)
    /\ pc \in {"delete", "remove"} => slot \in Keys(active_slots)
    /\ \A i, j \in DOMAIN active_slots :
          i # j => /\ active_slots[i].slot # active_slots[j].slot
                   /\ active_slots[i].msgid # active_slots[j].msgid

\* C2 witness: a create is about to be issued after an earlier delete.
CreateAfterDelete ==
    /\ pc = "send"
    /\ active_slots # <<>>
    /\ \E h \in DOMAIN sent : sent[h].dels = 1

\* C3 as claimed: whenever the reconciler of the running process is outside
\* its guarded section, the table holds exactly the created and not yet
\* deleted notifications.
TableInvariantOutsideReconciler == (Running /\ pc \notin Guarded) => TableMatchesSink

\* C3 amended: whenever the reconciler of the running process is outside its
\* guarded section and the handler has not begun its drain, the table holds
\* exactly the created and not yet deleted notifications, each slot with the
\* handle the sink returned for it.
TableInvariantBeforeDrain ==
    (Running /\ pc \notin Guarded /\ hpc \in {"idle", "acquire"}) => TableMatchesSink

\* C3 witness: the guard is free, one notification is tracked, one was retracted.
TrackedAndRetracted ==
    /\ lock = FALSE
    /\ Len(active_slots) = 1
    /\ \E h \in DOMAIN sent : ~sent[h].live
    /\ Running

\* A step of the poll loop (no handler on the stack before or after it).
PollStep == hpc = "idle" /\ hpc' = "idle" /\ pc' # pc

\* C4: an observation with percent > 0 for a slot already in the table issues
\* no create and leaves the table and the sink unchanged.
OpenObservationIdempotent ==
    [][(PollStep /\ pc = "decide" /\ ts.availability_percent > 0
            /\ slot \in Keys(active_slots))
        => (pc' = "release" /\ outcome' = "noop" /\ UNCHANGED <<active_slots, sent>>)]_vars

\* C4 witness: such an observation has been processed as a no-op.
ReobservedOpen ==
    /\ pc = "release"
    /\ outcome = "noop"
    /\ ts.availability_percent > 0
    /\ slot \in Keys(active_slots)

\* C5: a zero-percent observation for a slot in the table issues one delete,
\* with the stored handle, and removes that slot only; a zero-percent
\* observation for a slot not in the table issues none and changes nothing.
RoundTrip ==
    [][PollStep =>
        /\ (pc = "decide" /\ ts.availability_percent = 0 /\ slot \in Keys(active_slots))
              => (pc' = "delete" /\ UNCHANGED <<active_slots, sent>>)
        /\ (pc = "delete")
              => /\ \E i \in DOMAIN active_slots :
                      /\ active_slots[i].slot = slot
                      /\ sent'[active_slots[i].msgid].dels = 1
                      /\ pc' = "remove" => ~sent'[active_slots[i].msgid].live
                      /\ \A h \in DOMAIN sent : h # active_slots[i].msgid => sent'[h] = sent[h]
                 /\ UNCHANGED active_slots
        /\ (pc = "remove")
              => /\ pc' = "release"
                 /\ outcome' = "deleted"
                 /\ Items(active_slots') = {e \in Items(active_slots) : e.slot # slot}
                 /\ Len(active_slots') = Len(active_slots) - 1
                 /\ UNCHANGED sent
        /\ (pc = "decide" /\ ts.availability_percent = 0 /\ slot \notin Keys(active_slots))
              => (pc' = "release" /\ outcome' = "noop" /\ UNCHANGED <<active_slots, sent>>)
      ]_vars

\* C5 witness: a retraction has been completed while another slot stays tracked.
Retracted ==
    /\ pc = "release"
    /\ outcome = "deleted"
    /\ slot \notin Keys(active_slots)
    /\ active_slots # <<>>
    /\ \E h \in DOMAIN sent : sent[h].dels = 1 /\ ~sent[h].live

\* C6: the handler passes to delete exactly the handles of the table, one
\* call each, and over the whole run no handle is passed to delete twice.
DrainDeletesEachOnce ==
    /\ \A h \in DOMAIN sent : sent[h].dels <= 1
    /\ Len(drained) <= Len(active_slots)
    /\ \A i \in DOMAIN drained : drained[i] = active_slots[i].msgid
    /\ pc = "exited" => Len(drained) = Len(active_slots)

\* C6 witness: the handler has drained a table of two and exited.
DrainedTwo ==
    /\ pc = "exited"
    /\ Len(active_slots) = 2
    /\ Len(drained) = 2

\* C7: the handler's drain never runs while the reconciler is inside its
\* guarded section, and it starts from a table that agrees with the sink.
DrainExcludesReconcile ==
    /\ hpc \in {"drain", "nested", "done", "raised"} => pc \notin Guarded
    /\ (hpc = "drain" /\ hidx = 1) => TableMatchesSink

\* C7 witness: the signal arrived in mid-sweep and the drain has read an item.
DrainMidSweep ==
    /\ hpc = "drain"
    /\ hidx = 2
    /\ pc = "page"
    /\ processed > 0

\* C8: the tiers of the integer percentages 0..100.
Tier(percentage) ==
    IF percentage <= 33 THEN orange
    ELSE IF percentage >= 67 THEN green
    ELSE yellow

SeverityTiers == pc = "classified" => emoji = Tier(ts.availability_percent)

\* C8 witness: 34 has been classified as medium.
Classified34 ==
    /\ pc = "classified"
    /\ ts.availability_percent = 34
    /\ emoji = yellow

CenterPcs == {"round", "page", "acquire"} \cup Guarded

\* C9: while a timeslot is processed the cursor is its date + 1, whatever its
\* percentage; within a center's rounds the cursor never decreases, and it is
\* later than every date the center has yielded in this sweep.
CursorMonotone ==
    [][/\ pc' \in ({"acquire"} \cup Guarded) => start_date' = ts'.date + 1
       /\ (pc \in CenterPcs /\ pc' \in CenterPcs) => start_date' >= start_date
       /\ (pc' \in CenterPcs /\ seen' > 0) => start_date' = seen' + 1
       /\ (pc = "round" /\ pc' = "page") => start_date > seen
      ]_vars

\* C9 witness: three timeslots have been processed, the third in the second
\* round and on day 3, the latest day so far.
SecondRoundAfterThree ==
    /\ pc = "page"
    /\ round = 2
    /\ yielded = 1
    /\ processed = 3
    /\ seen = 3
    /\ start_date = 4

\* C10: a create response without "result" is warned about and does not end
\* the sweep.
MalformedCreateTolerated == "result" \in warnings => pc # "crashed"

\* C11: a directory response without "centers" or "timezones" is warned
\* about and read as empty, and the sweep goes on (as it does after a
\* timeslot response without "timeslotsFree").
MissingCollectionsTolerated ==
    warnings \cap {"centers", "timezones"} # {} => pc # "crashed"

\* C12: a network failure of a fetch or of a sink call ends the sweep only;
\* the process keeps running and the poll loop starts the next sweep.
TransportFailureEndsSweepOnly == exc = "URLError" => Running

Others(d, k) == {e \in Items(d) : e.slot # k}

\* C13: a timeslot ends as exactly one of created, deleted and no-op, decided
\* by its percentage and by whether its slot was in the table; no step of it
\* touches an item of another slot; the two no-ops call nothing and leave
\* table and sink as they were.
ReconcileFrame ==
    [][(PollStep /\ pc \in Guarded) =>
        /\ Others(active_slots', slot) = Others(active_slots, slot)
        /\ pc = "decide" =>
              /\ UNCHANGED <<active_slots, sent>>
              /\ pc' = (IF ts.availability_percent > 0 /\ slot \notin Keys(active_slots)
                          THEN "send"
                        ELSE IF ts.availability_percent = 0 /\ slot \in Keys(active_slots)
                          THEN "delete"
                        ELSE "release")
        /\ pc' = "release" =>
              outcome' = (IF pc = "store" THEN "created"
                          ELSE IF pc = "remove" THEN "deleted"
                          ELSE "noop")
        /\ pc = "store" => /\ pc' = "release"
                           /\ Items(active_slots') \ Items(active_slots)
                                 = {[slot |-> slot, msgid |-> Len(sent)]}
        /\ pc = "remove" => /\ pc' = "release"
                            /\ slot \notin Keys(active_slots')
        /\ (pc = "release" /\ outcome = "noop") =>
              UNCHANGED <<active_slots, sent>>
      ]_vars

\* C13 witness: a timeslot has been retracted while another slot's item
\* stayed in the table.
DeletedBesideAnother ==
    /\ pc = "release"
    /\ outcome = "deleted"
    /\ Len(active_slots) = 1
    /\ active_slots[1].slot # slot

\* C14: the table starts empty; an item enters it only in the step that
\* stores the handle for a timeslot with percent > 0 whose slot was absent,
\* and leaves it only in the step that processes a timeslot with percent 0
\* for that slot; no other step changes the table, and a message leaves the
\* sink only by a delete call of the reconciler or of the handler.
EntryLifecycle ==
    /\ active_slots = <<>>
    /\ [][/\ active_slots' # active_slots =>
              \/ /\ pc = "store"
                 /\ ts.availability_percent > 0
                 /\ slot \notin Keys(active_slots)
                 /\ active_slots' = Append(active_slots, [slot |-> slot, msgid |-> msgid])
              \/ /\ pc = "remove"
                 /\ ts.availability_percent = 0
                 /\ Items(active_slots') = Others(active_slots, slot)
                 /\ Len(active_slots') = Len(active_slots) - 1
          /\ Live' # Live =>
              \/ pc = "send" /\ Live' = Live \cup {Len(sent) + 1}
              \/ pc = "delete" /\ Live' = Live \ {Get(active_slots, slot)}
              \/ hpc = "drain" /\ Live' = Live \ {active_slots[hidx].msgid}
         ]_vars

\* C14 witness: a slot tracked in an earlier sweep is still tracked, and its
\* message still at the sink, while a later sweep has ended without a
\* timeslot for it.
KeptAcrossSweeps ==
    /\ pc = "sweep_end"
    /\ processed = 0
    /\ Len(active_slots) = 1
    /\ active_slots[1].msgid \in Live

\* C15: once the handler has the guard, the poll loop takes no further step:
\* no timeslot is processed, no message is created, the table is not
\* written; and the exit the handler reaches is exit(0), with no exception.
NothingAfterShutdownStarts ==
    [][(hpc \in {"drain", "nested", "done", "raised"}) =>
        /\ hpc' # "idle"
        /\ UNCHANGED <<active_slots, processed, ts, slot, lock, loopvars>>
        /\ Len(sent') = Len(sent)
        /\ (pc' # pc) => ((pc' = "exited" /\ exc' = "none" /\ hpc' = "done")
                            \/ (pc' = "crashed" /\ hpc' = "raised"))
      ]_vars

\* C15 witness: the handler has exited after a drain that began in mid-sweep.
ExitedMidSweep ==
    /\ pc = "exited"
    /\ hpc = "done"
    /\ processed > 0
    /\ drained # <<>>

\* C16 as claimed: the reconciler's create and delete calls are made while
\* the guard is not held.
SinkCallsUnguarded == pc \in {"send", "delete"} => lock = FALSE

\* C16 amended: the reconciler's create and delete calls are made while the
\* guard is held; it is held from before the decision until after the table
\* is written.
SinkCallsGuarded == pc \in Guarded => lock = TRUE

\* C16 witness: a delete call is about to be made, after an earlier create.
DeleteCallPending ==
    /\ pc = "delete"
    /\ hpc = "idle"
    /\ lock = TRUE
    /\ Get(active_slots, slot) \in Live

\* C17: a guarded section that is no longer executing has released the
\* guard: after an exception out of the reconciler's section and after the
\* handler's exit the guard is free.
GuardReleasedOnExit == ~Running => lock = FALSE

\* C18: whatever the directory says of the center's name and offset, a
\* timeslot of a center, day and zone that has a message at the sink finds
\* it in the table: no second message is created for it, and with percent 0
\* the message deleted is that one.
KeyStableAcrossRefresh ==
    /\ \A g, h \in Live : g # h => sent[g].slot # sent[h].slot
    /\ pc = "send" => \A h \in Live : sent[h].slot # Announced
    /\ pc = "delete" => sent[Get(active_slots, slot)].slot = Announced
    /\ (pc = "release" /\ outcome = "noop") =>
          (ts.availability_percent > 0 <=> \E h \in Live : sent[h].slot = Announced)

\* C18 witness: a timeslot with percent > 0 was a no-op for a slot whose
\* message carries another name of the center than the directory has now.
ReobservedAfterRename ==
    /\ pc = "release"
    /\ outcome = "noop"
    /\ ts.availability_percent > 0
    /\ \E h \in Live : /\ sent[h].slot = Announced
                       /\ sent[h].msg.name # centers[ci].name
====
